---- MODULE Spec2Model ----
(***************************************************************************)
(* Model of run_script_service.py: a supervisor that runs ./run.sh every   *)
(* `interval` seconds, appends the outcome to run.log, trims the log to    *)
(* max_log_lines lines, and keeps `interval` in service_config.json.       *)
(*                                                                         *)
(* Text (file contents, captured output, command-line arguments) is a      *)
(* sequence of tokens; a token is a string standing for one character or   *)
(* for a fixed run of characters that no operation looks into.  "\n" is    *)
(* the newline.                                                            *)
(***************************************************************************)
EXTENDS Integers, Sequences, FiniteSets, TLC

VARIABLES svc, fs

vars == <<svc, fs>>

-----------------------------------------------------------------------------
(* Bounds of the model. *)

\* execute_script calls one run loop may start
MaxCycles == 2
\* one-second polls one wait may perform
MaxElapsed == 2
\* number of lines the log file may hold before the first invocation
MaxInitLines == 4
\* max_log_lines, scaled down from the 100 of the source
MaxLogLines == 3
\* lines beyond max_log_lines a log drawn as input of trim_log may hold
MaxTrimExcess == 1

\* the first and the second invocation of the program
Procs == {1, 2}

-----------------------------------------------------------------------------
(* Text helpers. *)

NL == "\n"

Whitespace == {" ", "  ", "\n", "\t"}

Digits == <<"0", "1", "2", "3", "4", "5", "6", "7", "8", "9">>

IsDigit(c) == \E i \in 1..10 : Digits[i] = c

DigitVal(c) == (CHOOSE i \in 1..10 : Digits[i] = c) - 1

\* str(n) for a non-negative int
RECURSIVE NatToStr(_)
NatToStr(n) ==
    IF n < 10 THEN <<Digits[n + 1]>>
    ELSE NatToStr(n \div 10) \o <<Digits[(n % 10) + 1]>>

\* str(n) / format of an int in an f-string or by json.dump
IntToStr(n) == IF n < 0 THEN <<"-">> \o NatToStr(0 - n) ELSE NatToStr(n)

\* value of a non-empty sequence of digits
RECURSIVE DigitsVal(_)
DigitsVal(s) ==
    IF Len(s) = 0 THEN 0
    ELSE 10 * DigitsVal(SubSeq(s, 1, Len(s) - 1)) + DigitVal(s[Len(s)])

AllDigits(s) == Len(s) > 0 /\ \A i \in 1..Len(s) : IsDigit(s[i])

\* str.strip(): drop leading and trailing whitespace
RECURSIVE LStrip(_)
LStrip(s) ==
    IF Len(s) > 0 /\ s[1] \in Whitespace THEN LStrip(Tail(s)) ELSE s

RECURSIVE RStrip(_)
RStrip(s) ==
    IF Len(s) > 0 /\ s[Len(s)] \in Whitespace
    THEN RStrip(SubSeq(s, 1, Len(s) - 1)) ELSE s

strip(s) == RStrip(LStrip(s))

\* file.readlines(): the lines of a text, each with its terminating "\n"
\* (the last line has none when the text does not end with one)
RECURSIVE SplitLines(_, _, _)
SplitLines(text, cur, acc) ==
    IF Len(text) = 0
    THEN (IF Len(cur) = 0 THEN acc ELSE Append(acc, cur))
    ELSE IF text[1] = NL
         THEN SplitLines(Tail(text), <<>>, Append(acc, Append(cur, NL)))
         ELSE SplitLines(Tail(text), Append(cur, text[1]), acc)

readlines(text) == SplitLines(text, <<>>, <<>>)

\* file.writelines(lines): the concatenation of the lines
RECURSIVE writelines(_)
writelines(lines) ==
    IF Len(lines) = 0 THEN <<>> ELSE lines[1] \o writelines(Tail(lines))

\* lines[-n:] of a Python list, n > 0
LastLines(lines, n) ==
    IF Len(lines) <= n THEN lines
    ELSE SubSeq(lines, Len(lines) - n + 1, Len(lines))

-----------------------------------------------------------------------------
(* Python values that can end up in self.interval: [t |-> type, v |-> Int]. *)
(* A float carries its value in tenths.                                     *)

PyIntV(n)   == [t |-> "int", v |-> n]
PyFloatV(x) == [t |-> "float", v |-> x]
PyStrV      == [t |-> "str", v |-> 0]
PyNoneV     == [t |-> "none", v |-> 0]

\* an int() that skips the characters that are not digits
PyInt_skips_non_digits(s) ==
    LET d == SelectSeq(s, IsDigit)
    IN  [ok |-> TRUE, val |-> DigitsVal(d)]

\* int(s): optional surrounding whitespace, optional sign, decimal digits
PyInt(s) ==
    LET b == strip(s)
        signed == Len(b) > 0 /\ b[1] \in {"+", "-"}
        d == IF signed THEN Tail(b) ELSE b
    IN  IF AllDigits(d)
        THEN [ok |-> TRUE,
              val |-> IF signed /\ b[1] = "-" THEN 0 - DigitsVal(d)
                      ELSE DigitsVal(d)]
        ELSE [ok |-> FALSE, val |-> 0]

\* a < b for an int a and a Python value b: "TypeError" when b is not a number
PyLess(a, b) ==
    CASE b.t = "int"   -> [err |-> "", val |-> a < b.v]
      [] b.t = "float" -> [err |-> "", val |-> 10 * a < b.v]
      [] OTHER         -> [err |-> "TypeError", val |-> FALSE]

-----------------------------------------------------------------------------
(* Files.  A file is [exists, text]; a directory holds the two files that  *)
(* live next to the program: service_config.json and run.log.              *)

NoFile == [exists |-> FALSE, text |-> <<>>]

File(text) == [exists |-> TRUE, text |-> text]

\* tokens that stand for a quoted JSON string
JsonStrings == {"\"interval\"", "\"other\"", "\"abc\""}

\* a JSON number -?(0|[1-9][0-9]*)(.[0-9])? ; more than one fraction digit
\* is outside the model
JsonNumber(lit) ==
    LET neg == Len(lit) > 0 /\ lit[1] = "-"
        u == IF neg THEN Tail(lit) ELSE lit
        dot == IF \E i \in 1..Len(u) : u[i] = "."
               THEN CHOOSE i \in 1..Len(u) : u[i] = "." ELSE 0
        ip == IF dot = 0 THEN u ELSE SubSeq(u, 1, dot - 1)
        fp == IF dot = 0 THEN <<>> ELSE SubSeq(u, dot + 1, Len(u))
        okInt == AllDigits(ip) /\ (Len(ip) = 1 \/ ip[1] # "0")
        sgn == IF neg THEN 0 - 1 ELSE 1
    IN  IF ~okInt THEN [err |-> "JSONDecodeError", val |-> PyNoneV]
        ELSE IF dot = 0
        THEN [err |-> "", val |-> PyIntV(sgn * DigitsVal(ip))]
        ELSE IF Len(fp) = 1 /\ AllDigits(fp)
        THEN [err |-> "",
              val |-> PyFloatV(sgn * (10 * DigitsVal(ip) + DigitsVal(fp)))]
        ELSE [err |-> "JSONDecodeError", val |-> PyNoneV]

\* a JSON scalar: null, a string or a number
JsonScalar(lit) ==
    IF lit = <<"null">> THEN [err |-> "", val |-> PyNoneV]
    ELSE IF Len(lit) = 1 /\ lit[1] \in JsonStrings
    THEN [err |-> "", val |-> PyStrV]
    ELSE JsonNumber(lit)

\* json.load(f) for the documents of the model: an object with no member or
\* one member whose value is a scalar, an empty array, or a bare scalar.
\* The result is [err, t, has, item]: t the Python type of the document,
\* has whether it is a dict with the key 'interval', item the value there.
json_load(text) ==
    LET toks == SelectSeq(text, LAMBDA c : c \notin Whitespace)
        n == Len(toks)
        bad == [err |-> "JSONDecodeError", t |-> "", has |-> FALSE,
                item |-> PyNoneV]
    IN  IF n = 0 THEN bad
        ELSE IF toks = <<"[", "]">>
        THEN [err |-> "", t |-> "list", has |-> FALSE, item |-> PyNoneV]
        ELSE IF toks = <<"{", "}">>
        THEN [err |-> "", t |-> "dict", has |-> FALSE, item |-> PyNoneV]
        ELSE IF toks[1] = "{"
        THEN IF n >= 5 /\ toks[2] \in JsonStrings /\ toks[3] = ":"
                /\ toks[n] = "}"
             THEN LET r == JsonScalar(SubSeq(toks, 4, n - 1))
                  IN  IF r.err # "" THEN bad
                      ELSE [err |-> "", t |-> "dict",
                            has |-> toks[2] = "\"interval\"",
                            item |-> r.val]
             ELSE bad
        ELSE LET r == JsonScalar(toks)
             IN  IF r.err # "" THEN bad
                 ELSE [err |-> "", t |-> r.val.t, has |-> FALSE,
                       item |-> PyNoneV]

\* json.dump({'interval': n}, f, indent=2) for an int n
json_dump(val) ==
    <<"{", NL, "  ", "\"interval\"", ":", " ">> \o IntToStr(val.v)
        \o <<NL, "}">>

-----------------------------------------------------------------------------
(* The service object and the position of its process.                     *)
(*   pc       where the process is: "idle" (not started), "main", "loop",  *)
(*            "exec", "append", "trim", "except", "wait", "exited"         *)
(*   status   exit status of the process, -1 while it has none             *)
(*   term     how it ended: "return", "sys.exit", "signal", "exception"    *)
(*   result   returncode, stdout and stderr of the last subprocess.run     *)
(*   exc      message of the exception execute_script is handling          *)
(*   cycles   number of execute_script calls started                       *)
(*   after    the processes that had ended when this one started           *)
(*   sigAt    position at which a signal reached the process, "" if none   *)
(*   sigPolls one-second sleeps completed after that signal                *)
(*   cfgError the last configuration error the process printed: "loading"  *)
(*            (line 35), "saving" (line 44), "" if none                    *)

\* default interval, line 14
DEFAULT_INTERVAL == 3600

\* self.max_log_lines, line 18 (scaled)
max_log_lines == MaxLogLines

NoResult == [rc |-> 0, out |-> <<>>, err |-> <<>>]

Idle ==
    [pc |-> "idle", argv |-> <<>>, dir |-> 1, running |-> FALSE,
     interval |-> PyIntV(DEFAULT_INTERVAL), elapsed |-> 0,
     status |-> 0 - 1, term |-> "", result |-> NoResult, exc |-> "",
     cycles |-> 0, after |-> {}, sigAt |-> "", sigPolls |-> 0,
     cfgError |-> ""]

\* an input of a step: the outcome of the file operation (fault) and of the
\* child command (launch, rc, out, err) the step performs
NoEvent ==
    [fault |-> "none", launch |-> "", rc |-> 0, out |-> <<>>, err |-> <<>>]

\* sys.exit(n) and the end of main(): the process ends with status n; the
\* locals of the frames it leaves are dropped
Exit(s, n, how) ==
    [s EXCEPT !.pc = "exited", !.status = n, !.term = how, !.elapsed = 0,
              !.result = NoResult, !.exc = "", !.cycles = 0]

\* an exception nothing catches: traceback, exit status 1
Uncaught(s, e) == [Exit(s, 1, "exception") EXCEPT !.exc = e]

\* a load_config that reads the key without a default
load_config_no_default(s, cfg, fault) ==
    LET failed == [s EXCEPT !.cfgError = "loading"]
    IN  IF ~cfg.exists THEN s
        ELSE IF fault # "none" THEN failed
        ELSE LET config == json_load(cfg.text)
             IN  IF config.err # "" THEN failed
                 ELSE IF config.t # "dict" THEN failed
                 ELSE [s EXCEPT !.interval =
                          IF config.has THEN config.item ELSE PyNoneV]

\* load_config: the interval after reading the configuration file cfg
load_config(s, cfg, fault) ==
    LET failed == [s EXCEPT !.cfgError = "loading"]
    IN  IF ~cfg.exists THEN s
        ELSE IF fault # "none" THEN failed
        ELSE LET config == json_load(cfg.text)
             IN  IF config.err # "" THEN failed
                 ELSE IF config.t # "dict" THEN failed
                 ELSE [s EXCEPT !.interval =
                          IF config.has THEN config.item
                          ELSE PyIntV(DEFAULT_INTERVAL)]

\* save_config: the configuration file after the write
save_config(s, cfg, fault) ==
    IF fault # "none" THEN cfg ELSE File(json_dump(s.interval))

\* a set_interval that saves before it assigns
set_interval_saves_first(s, f, n, fault) ==
    [s |-> [s EXCEPT !.interval = PyIntV(n)],
     f |-> [f EXCEPT !.config = save_config(s, f.config, fault)]]

\* a set_interval that takes the old interval back when the write fails
set_interval_rolls_back(s, f, n, fault) ==
    LET s1 == [s EXCEPT !.interval = IF fault # "none" THEN @ ELSE PyIntV(n),
                        !.cfgError = IF fault # "none" THEN "saving" ELSE @]
    IN  [s |-> s1,
         f |-> [f EXCEPT !.config =
                   save_config([s EXCEPT !.interval = PyIntV(n)],
                               f.config, fault)]]

\* set_interval: [s, f] after self.interval = interval; self.save_config()
set_interval(s, f, n, fault) ==
    LET s1 == [s EXCEPT !.interval = PyIntV(n),
                        !.cfgError = IF fault # "none" THEN "saving" ELSE @]
    IN  [s |-> s1, f |-> [f EXCEPT !.config = save_config(s1, f.config, fault)]]

\* __init__: a service with the defaults, then load_config; the signal
\* handlers are installed when it returns
RunScriptService(a, d, ended, cfg, fault) ==
    load_config([Idle EXCEPT !.pc = "main", !.argv = a, !.dir = d,
                             !.after = ended], cfg, fault)

\* a trim_log that keeps the first lines
trim_log_keeps_head(logf, fault) ==
    IF ~logf.exists THEN logf
    ELSE IF fault = "open" THEN logf
    ELSE LET lines == readlines(logf.text)
         IN  IF Len(lines) > max_log_lines
             THEN IF fault = "open2" THEN logf
                  ELSE File(writelines(SubSeq(lines, 1, max_log_lines)))
             ELSE logf

\* a trim that keeps the first line and the newest lines after it
trim_log_keeps_first_line(logf, fault) ==
    IF ~logf.exists THEN logf
    ELSE IF fault = "open" THEN logf
    ELSE LET lines == readlines(logf.text)
         IN  IF Len(lines) > max_log_lines
             THEN IF fault = "open2" THEN logf
                  ELSE File(writelines(
                           SubSeq(lines, 1, 1)
                              \o LastLines(lines, max_log_lines - 1)))
             ELSE logf

\* trim_log: the log file after the trim
trim_log(logf, fault) ==
    IF ~logf.exists THEN logf
    ELSE IF fault = "open" THEN logf
    ELSE LET lines == readlines(logf.text)
         IN  IF Len(lines) > max_log_lines
             THEN IF fault = "open2" THEN logf
                  ELSE File(writelines(LastLines(lines, max_log_lines)))
             ELSE logf

\* datetime.now().strftime("%Y-%m-%d %H:%M:%S"): the clock is not modelled
TS == "YYYY-MM-DD HH:MM:SS"

\* "-" * 50
DASHES == "--------------------------------------------------"

\* str(e) of the exceptions of the model
ErrNoScript  == "[Errno 2] No such file or directory: 'run.sh'"
ErrNotExec   == "[Errno 13] Permission denied: 'run.sh'"
ErrLogDenied == "[Errno 13] Permission denied: 'run.log'"

\* a log_entry that writes the captured output as it is
log_entry_no_strip(result) ==
    <<"[", TS, "] Exit code: ">> \o IntToStr(result.rc) \o <<NL>>
      \o (IF result.out # <<>>
          THEN <<"STDOUT: ">> \o result.out \o <<NL>> ELSE <<>>)
      \o (IF result.err # <<>>
          THEN <<"STDERR: ">> \o result.err \o <<NL>> ELSE <<>>)
      \o <<DASHES, NL>>

\* log_entry of lines 81-86
log_entry(result) ==
    <<"[", TS, "] Exit code: ">> \o IntToStr(result.rc) \o <<NL>>
      \o (IF result.out # <<>>
          THEN <<"STDOUT: ">> \o strip(result.out) \o <<NL>> ELSE <<>>)
      \o (IF result.err # <<>>
          THEN <<"STDERR: ">> \o strip(result.err) \o <<NL>> ELSE <<>>)
      \o <<DASHES, NL>>

\* error_msg of line 99
error_msg(e) == <<"[", TS, "] ERROR: ", e, NL, DASHES, NL>>

\* open(path, 'a') ... f.write(text)
append_file(logf, text) == File(logf.text \o text)

\* an execute_script that clears the run flag when the launch fails
exec_launch_stops_on_failure(s, f, ev) ==
    [s |-> IF ev.launch # "ok"
           THEN [s EXCEPT !.pc = "except", !.exc = ev.launch,
                          !.running = FALSE]
           ELSE [s EXCEPT !.pc = "append",
                          !.result = [rc |-> ev.rc, out |-> ev.out,
                                      err |-> ev.err]],
     f |-> f]

\* execute_script, lines 70-78: subprocess.run returns a result or raises
exec_launch(s, f, ev) ==
    [s |-> IF ev.launch # "ok"
           THEN [s EXCEPT !.pc = "except", !.exc = ev.launch]
           ELSE [s EXCEPT !.pc = "append",
                          !.result = [rc |-> ev.rc, out |-> ev.out,
                                      err |-> ev.err]],
     f |-> f]

\* execute_script, lines 80-90: format the entry and append it
exec_append(s, f, ev) ==
    IF ev.fault # "none"
    THEN [s |-> [s EXCEPT !.pc = "except", !.exc = ErrLogDenied], f |-> f]
    ELSE [s |-> [s EXCEPT !.pc = "trim"],
          f |-> [f EXCEPT !.log = append_file(@, log_entry(s.result))]]

\* an execute_script that loads the configuration again after the trim
exec_trim_reloads(s, f, ev) ==
    [s |-> load_config([s EXCEPT !.pc = "wait", !.elapsed = 0,
                                 !.result = NoResult], f.config, "none"),
     f |-> [f EXCEPT !.log = trim_log(@, ev.fault)]]

\* execute_script, lines 92-95, and the return to run(), line 115
exec_trim(s, f, ev) ==
    [s |-> [s EXCEPT !.pc = "wait", !.elapsed = 0, !.result = NoResult],
     f |-> [f EXCEPT !.log = trim_log(@, ev.fault)]]

\* an except block that records the error and raises it again
exec_except_reraises(s, f, ev) ==
    [s |-> Uncaught(s, s.exc),
     f |-> [f EXCEPT !.log = append_file(@, error_msg(s.exc))]]

\* execute_script, lines 97-104, and the return to run(), line 115
exec_except(s, f, ev) ==
    IF ev.fault # "none"
    THEN [s |-> Uncaught(s, ErrLogDenied), f |-> f]
    ELSE [s |-> [s EXCEPT !.pc = "wait", !.elapsed = 0, !.exc = "",
                          !.result = NoResult],
          f |-> [f EXCEPT !.log = append_file(@, error_msg(s.exc))]]

\* run(), lines 116-118: one test of the wait loop and, if it holds, one
\* time.sleep(1)
run_wait(s) ==
    LET t == PyLess(s.elapsed, s.interval)
    IN  IF t.err # "" THEN Uncaught(s, t.err)
        ELSE IF t.val /\ s.running
        THEN [s EXCEPT !.elapsed = @ + 1,
                       !.sigPolls = IF s.sigAt = "wait" THEN @ + 1 ELSE @]
        ELSE [s EXCEPT !.pc = "loop"]

\* run(), line 111: the test of the outer loop; main() ends when it fails
run_loop(s) ==
    IF s.running THEN [s EXCEPT !.pc = "exec", !.cycles = @ + 1]
    ELSE Exit(s, 0, "return")

\* run(), lines 108-109
run(s) == [s EXCEPT !.running = TRUE, !.pc = "loop"]

\* a handler that only prints the signal number
signal_handler_print_only(s) == s

\* a handler whose SystemExit the except block of execute_script catches
signal_handler_caught_in_execute(s) ==
    IF s.sigAt \in {"exec", "append", "trim"}
    THEN [s EXCEPT !.running = FALSE, !.pc = "except", !.exc = "SystemExit"]
    ELSE Exit([s EXCEPT !.running = FALSE], 0, "signal")

\* stop() and signal_handler: SystemExit is not an Exception, no handler of
\* the program catches it
signal_handler(s) == Exit([s EXCEPT !.running = FALSE], 0, "signal")

PROG == <<"run_script_service.py">>

\* a main() that runs the loop on every command but a well-formed
\* set-interval
main_runs_by_default(s, f, ev) ==
    IF Len(s.argv) = 3 /\ s.argv[2] = <<"set-interval">> /\ PyInt(s.argv[3]).ok
    THEN LET r == set_interval(s, f, PyInt(s.argv[3]).val, ev.fault)
         IN  [s |-> Exit(r.s, 0, "return"), f |-> r.f]
    ELSE [s |-> run(s), f |-> f]

\* a main() that takes the lack of a command for an unknown command
main_no_default(s, f, ev) ==
    IF Len(s.argv) > 1 /\ s.argv[2] = <<"run">>
    THEN [s |-> run(s), f |-> f]
    ELSE [s |-> Exit(s, 1, "sys.exit"), f |-> f]

\* main(), lines 134-153, after the construction of the service
main(s, f, ev) ==
    IF Len(s.argv) > 1
    THEN LET command == s.argv[2]
         IN  IF command = <<"set-interval">>
             THEN IF Len(s.argv) # 3
                  THEN [s |-> Exit(s, 1, "sys.exit"), f |-> f]
                  ELSE LET n == PyInt(s.argv[3])
                       IN  IF n.ok
                           THEN LET r == set_interval(s, f, n.val, ev.fault)
                                IN  [s |-> Exit(r.s, 0, "return"), f |-> r.f]
                           ELSE [s |-> Exit(s, 1, "sys.exit"), f |-> f]
             ELSE IF command = <<"run">>
             THEN [s |-> run(s), f |-> f]
             ELSE [s |-> Exit(s, 1, "sys.exit"), f |-> f]
    ELSE [s |-> run(s), f |-> f]

\* one step of a started process on the files f of its directory
Step(s, f, ev) ==
    CASE s.pc = "main"   -> main(s, f, ev)
      [] s.pc = "loop"   -> [s |-> run_loop(s), f |-> f]
      [] s.pc = "exec"   -> exec_launch(s, f, ev)
      [] s.pc = "append" -> exec_append(s, f, ev)
      [] s.pc = "trim"   -> exec_trim(s, f, ev)
      [] s.pc = "except" -> exec_except(s, f, ev)
      [] s.pc = "wait"   -> [s |-> run_wait(s), f |-> f]
      [] OTHER           -> [s |-> s, f |-> f]

-----------------------------------------------------------------------------
(* Inputs. *)

Dirs == {1, 2}

\* sys.argv
IntervalArgs ==
    {<<"7">>, <<"1", "2">>, <<"-", "1">>, <<"a", "b", "c">>, <<"1", ".", "5">>}

Argvs ==
    {<<PROG>>, <<PROG, <<"run">>>>, <<PROG, <<"status">>>>,
     <<PROG, <<"set-interval">>>>,
     <<PROG, <<"set-interval">>, <<"2">>, <<"3">>>>}
    \cup {<<PROG, <<"set-interval">>, a>> : a \in IntervalArgs}

\* an invocation with these arguments runs the loop
RunsLoop(a) == Len(a) = 1 \/ (Len(a) > 1 /\ a[2] = <<"run">>)

\* service_config.json before the first invocation
ConfigWith(lit) ==
    File(<<"{", NL, "  ", "\"interval\"", ":", " ">> \o lit \o <<NL, "}">>)

InitConfigs ==
    {NoFile, File(<<>>), File(<<"{", "}">>)}
    \cup {ConfigWith(lit) : lit \in {<<"1">>, <<"-", "1">>, <<"\"abc\"">>}}

\* run.log before the first invocation: n numbered lines
RECURSIVE OldLines(_)
OldLines(n) ==
    IF n = 0 THEN <<>>
    ELSE OldLines(n - 1) \o <<"old ">> \o IntToStr(n) \o <<NL>>

InitLogs ==
    {NoFile} \cup {File(OldLines(n)) : n \in (MaxInitLines - 1)..MaxInitLines}

\* outcomes of subprocess.run: it raises, or returns a result
Raises(e) == [NoEvent EXCEPT !.launch = e]
Returns(c, o, e) ==
    [NoEvent EXCEPT !.launch = "ok", !.rc = c, !.out = o, !.err = e]

\* the outcomes drawn in the two-process specifications
LaunchEvents == {Raises(ErrNoScript), Returns(0, <<"hello", NL>>, <<>>)}

\* the outcomes drawn where one execution is looked at
RetCodes == {0, 1, 0 - 9, 127}
Outs == {<<>>, <<NL>>, <<"hello", NL>>, <<" ", "a", NL, "b", " ", NL>>}
Errs == {<<>>, <<"oops", NL>>, <<"\t", "x">>}

AllLaunchEvents ==
    {Raises(e) : e \in {ErrNoScript, ErrNotExec}}
    \cup {Returns(c, o, e) : c \in RetCodes, o \in Outs, e \in Errs}

\* outcomes of the file operations of a step: "open" is a failing open(),
\* "open2" a failing second open() (the rewrite of trim_log)
NoFaults   == {"none"}
OpenFaults == {"none", "open"}
TrimFaults == {"none", "open", "open2"}

-----------------------------------------------------------------------------
(* The state machine. *)

Alive(s) == s.pc \notin {"idle", "exited"}

Ended == {q \in Procs : svc[q].pc = "exited"}

Init ==
    /\ svc = [p \in Procs |-> Idle]
    /\ \E c \in InitConfigs, l \in InitLogs :
          fs = [d \in Dirs |-> [config |-> c, log |-> l]]

Apply(p, ev) ==
    LET r == Step(svc[p], fs[svc[p].dir], ev)
    IN  /\ svc' = [svc EXCEPT ![p] = r.s]
        /\ fs' = [fs EXCEPT ![svc[p].dir] = r.f]

\* the program is started: the service is built and loads its configuration.
\* Two run loops on the same files are not supported and are not started.
Start(p, A, F) ==
    /\ svc[p].pc = "idle"
    /\ \A q \in 1..(p - 1) : svc[q].pc # "idle"
    /\ \E a \in A, fault \in F :
          /\ RunsLoop(a) =>
                \A q \in Procs \ {p} : Alive(svc[q]) => ~RunsLoop(svc[q].argv)
          /\ svc' = [svc EXCEPT ![p] =
                        RunScriptService(a, 1, Ended, fs[1].config, fault)]
    /\ UNCHANGED fs

Main(p, F) ==
    /\ svc[p].pc = "main"
    /\ \E fault \in F : Apply(p, [NoEvent EXCEPT !.fault = fault])

Loop(p, maxc) ==
    /\ svc[p].pc = "loop"
    /\ svc[p].running => svc[p].cycles < maxc
    /\ Apply(p, NoEvent)

Launch(p, E) ==
    /\ svc[p].pc = "exec"
    /\ \E ev \in E : Apply(p, ev)

AppendEntry(p, F) ==
    /\ svc[p].pc = "append"
    /\ \E fault \in F : Apply(p, [NoEvent EXCEPT !.fault = fault])

Trim(p, F) ==
    /\ svc[p].pc = "trim"
    /\ \E fault \in F : Apply(p, [NoEvent EXCEPT !.fault = fault])

Except(p, F) ==
    /\ svc[p].pc = "except"
    /\ \E fault \in F : Apply(p, [NoEvent EXCEPT !.fault = fault])

Wait(p) ==
    /\ svc[p].pc = "wait"
    /\ LET t == PyLess(svc[p].elapsed, svc[p].interval)
       IN  (t.err = "" /\ t.val /\ svc[p].running)
              => svc[p].elapsed < MaxElapsed
    /\ Apply(p, NoEvent)

\* SIGINT or SIGTERM reaches a process whose handlers are installed
Signal(p) ==
    /\ Alive(svc[p])
    /\ svc[p].sigAt = ""
    /\ svc' = [svc EXCEPT ![p] = signal_handler([@ EXCEPT !.sigAt = svc[p].pc])]
    /\ UNCHANGED fs

Next ==
    \E p \in Procs :
        \/ Start(p, Argvs, OpenFaults)
        \/ Main(p, OpenFaults)
        \/ Loop(p, MaxCycles)
        \/ Launch(p, LaunchEvents)
        \/ AppendEntry(p, OpenFaults)
        \/ Trim(p, TrimFaults)
        \/ Except(p, OpenFaults)
        \/ Wait(p)
        \/ Signal(p)

\* every file operation may fail
Spec == Init /\ [][Next]_vars

NextNoFault ==
    \E p \in Procs :
        \/ Start(p, Argvs, NoFaults)
        \/ Main(p, NoFaults)
        \/ Loop(p, MaxCycles)
        \/ Launch(p, LaunchEvents)
        \/ AppendEntry(p, NoFaults)
        \/ Trim(p, NoFaults)
        \/ Except(p, NoFaults)
        \/ Wait(p)
        \/ Signal(p)

\* the files can be read and written
SpecNoFault == Init /\ [][NextNoFault]_vars

\* one invocation that runs the loop for one cycle, with every outcome of
\* the child command
RunArgvs == {<<PROG>>, <<PROG, <<"run">>>>}

NextCycle ==
    \/ Start(1, RunArgvs, NoFaults)
    \/ Main(1, NoFaults)
    \/ Loop(1, 1)
    \/ Launch(1, AllLaunchEvents)
    \/ AppendEntry(1, NoFaults)
    \/ Trim(1, NoFaults)
    \/ Except(1, NoFaults)
    \/ Wait(1)
    \/ Signal(1)

SpecCycle == Init /\ [][NextCycle]_vars

\* outcomes of the command with entries of different numbers of lines
LogLaunchEvents ==
    LaunchEvents
    \cup {Returns(1, <<"a", NL, "b">>, <<"warn", NL>>)}

\* the writer of the log alone: one run loop over several cycles and every
\* failure of a file operation
NextLog ==
    \/ Start(1, RunArgvs, OpenFaults)
    \/ Main(1, NoFaults)
    \/ Loop(1, MaxCycles)
    \/ Launch(1, LogLaunchEvents)
    \/ AppendEntry(1, OpenFaults)
    \/ Trim(1, TrimFaults)
    \/ Except(1, OpenFaults)
    \/ Wait(1)
    \/ Signal(1)

SpecLog == Init /\ [][NextLog]_vars

\* trim_log on its own: process 1 is in execute_script, about to trim a log
\* drawn from the texts of at most max_log_lines + MaxTrimExcess lines; the
\* last line may lack its newline.  Directory 2 keeps the text drawn.
LineKinds == {<<"a", NL>>, <<"b", "b", NL>>, <<NL>>}

RECURSIVE JoinLines(_)
JoinLines(ls) ==
    IF Len(ls) = 0 THEN <<>>
    ELSE JoinLines(SubSeq(ls, 1, Len(ls) - 1)) \o ls[Len(ls)]

TrimLines ==
    LET whole == UNION {[1..k -> LineKinds] :
                          k \in 0..(max_log_lines + MaxTrimExcess)}
    IN  whole \cup {Append(ls, <<"c">>) :
                      ls \in {l \in whole :
                                Len(l) < max_log_lines + MaxTrimExcess}}

TrimInputs == {NoFile} \cup {File(JoinLines(ls)) : ls \in TrimLines}

InitTrim ==
    /\ svc = [p \in Procs |->
                IF p = 1
                THEN [Idle EXCEPT !.pc = "trim", !.argv = <<PROG>>,
                                  !.running = TRUE, !.cycles = 1]
                ELSE Idle]
    /\ \E l \in TrimInputs :
          fs = [d \in Dirs |-> [config |-> NoFile, log |-> l]]

NextTrim == Trim(1, NoFaults)

SpecTrim == InitTrim /\ [][NextTrim]_vars

\* two installations side by side: process 1 is started without arguments
\* in directory 1, process 2 with `run` in directory 2, on equal files; both
\* are given the same outcomes and signals at every step.
PairArgv(p) == IF p = 1 THEN <<PROG>> ELSE <<PROG, <<"run">>>>

FaultEvents(F) == {[NoEvent EXCEPT !.fault = x] : x \in F}

EventsAt(s) ==
    CASE s.pc = "exec" -> LaunchEvents
      [] s.pc = "trim" -> FaultEvents(TrimFaults)
      [] s.pc \in {"main", "append", "except"} -> FaultEvents(OpenFaults)
      [] OTHER -> {NoEvent}

\* the bounds of the model allow the step of s
WithinBounds(s) ==
    CASE s.pc = "loop" -> (s.running => s.cycles < MaxCycles)
      [] s.pc = "wait" ->
            LET t == PyLess(s.elapsed, s.interval)
            IN  (t.err = "" /\ t.val /\ s.running) => s.elapsed < MaxElapsed
      [] OTHER -> TRUE

PairStart ==
    /\ \A p \in Procs : svc[p].pc = "idle"
    /\ \E fault \in OpenFaults :
          svc' = [p \in Procs |->
                    RunScriptService(PairArgv(p), p, {}, fs[p].config, fault)]
    /\ UNCHANGED fs

PairStep ==
    /\ \E p \in Procs : Alive(svc[p])
    /\ \A p \in Procs : WithinBounds(svc[p])
    /\ \E ev \in EventsAt(svc[1]) :
          /\ svc' = [p \in Procs |-> Step(svc[p], fs[p], ev).s]
          /\ fs' = [p \in Procs |-> Step(svc[p], fs[p], ev).f]

PairSignal ==
    /\ \E p \in Procs : Alive(svc[p])
    /\ \A p \in Procs : svc[p].sigAt = ""
    /\ svc' = [p \in Procs |->
                 IF Alive(svc[p])
                 THEN signal_handler([svc[p] EXCEPT !.sigAt = svc[p].pc])
                 ELSE svc[p]]
    /\ UNCHANGED fs

NextPair == PairStart \/ PairStep \/ PairSignal

SpecPair == Init /\ [][NextPair]_vars

-----------------------------------------------------------------------------
(* Properties. *)

LogOf(p) == fs[svc[p].dir].log

ConfigOf(p) == fs[svc[p].dir].config

\* number of lines of a file
LineCount(file) == Len(readlines(file.text))

IsPositiveInt(val) == val.t = "int" /\ val.v > 0

\* the process was started as `set-interval <a>`
IsSetInterval(p, a) ==
    /\ Len(svc[p].argv) = 3
    /\ svc[p].argv[2] = <<"set-interval">>
    /\ svc[p].argv[3] = a

\* C1: whenever execute_script has returned to the run loop, after a normal
\* entry or after an ERROR entry, the log holds at most max_log_lines lines.
C1_LogBoundedAfterCycle ==
    \A p \in Procs :
        svc[p].pc = "wait" => LineCount(LogOf(p)) <= max_log_lines

\* C2: a process that runs the loop ends only through a signal: no failure
\* of a file operation or of the launch, and no configuration content, ends
\* it with an exception.
C2_OnlySignalEndsLoop ==
    \A p \in Procs :
        (svc[p].pc = "exited" /\ RunsLoop(svc[p].argv))
            => svc[p].term = "signal"

\* C3: the interval of every started service is a positive integer, and
\* once a set-interval invocation has completed the configuration file
\* holds a positive integer under 'interval'.
C3_IntervalPositive ==
    \A p \in Procs :
        /\ svc[p].pc # "idle" => IsPositiveInt(svc[p].interval)
        /\ (svc[p].pc = "exited" /\ svc[p].term = "return"
              /\ Len(svc[p].argv) = 3)
             => LET config == json_load(ConfigOf(p).text)
                IN  config.err = "" /\ config.has
                       /\ IsPositiveInt(config.item)

\* C4: a process that a signal reached in its inter-cycle wait completes at
\* most one further one-second sleep, starts no further execution, and does
\* not pass the test of the outer loop again.
C4_SignalInWaitStopsLoop ==
    \A p \in Procs :
        svc[p].sigAt = "wait"
            => /\ svc[p].sigPolls <= 1
               /\ svc[p].pc \in {"wait", "loop", "exited"}
               /\ svc[p].pc = "wait" => svc[p].sigPolls = 0
               /\ svc[p].pc = "loop" => ~svc[p].running

\* C4 witness: a signal reached a process waiting out the default interval
\* after a poll, and the process has ended
C4_Witness ==
    \E p \in Procs :
        /\ svc[p].sigAt = "wait"
        /\ svc[p].pc = "exited"
        /\ svc[p].interval = PyIntV(DEFAULT_INTERVAL)

\* C5: when a set-interval N invocation (N a positive integer) has completed
\* and another process is started after it, the interval of that process
\* after its startup load is N, whatever the file held before.
C5_SetThenFreshLoad ==
    \A p \in Procs, q \in Procs, n \in {7, 12} :
        ( /\ p # q
          /\ IsSetInterval(p, IF n = 7 THEN <<"7">> ELSE <<"1", "2">>)
          /\ svc[p].pc = "exited" /\ svc[p].term = "return"
          /\ p \in svc[q].after
          /\ svc[q].pc = "main" )
        => svc[q].interval = PyIntV(n)

\* C5 witness: set-interval 12 completed, and a later process has loaded 12
C5_Witness ==
    \E p \in Procs, q \in Procs :
        /\ p # q
        /\ IsSetInterval(p, <<"1", "2">>)
        /\ svc[p].pc = "exited" /\ svc[p].term = "return"
        /\ p \in svc[q].after
        /\ svc[q].pc = "main"
        /\ svc[q].interval = PyIntV(12)

\* arguments of set-interval that are no integers
NonIntegerArgs == {<<"a", "b", "c">>, <<"1", ".", "5">>}

\* C6: no step of a set-interval invocation with a non-integer argument
\* changes the configuration file or the log, and its dispatch in main()
\* ends the process with a nonzero status.
C6_BadArgumentNoEffect ==
    [][\A p \in Procs :
          ( /\ (\E a \in NonIntegerArgs : IsSetInterval(p, a))'
            /\ svc'[p] # svc[p] )
          => /\ fs' = fs
             /\ (svc[p].pc = "main" /\ svc'[p].sigAt = "")
                   => (svc'[p].pc = "exited" /\ svc'[p].status > 0)]_vars

\* C6 witness: set-interval 1.5 has ended with status 1 next to an existing
\* configuration file
C6_Witness ==
    \E p \in Procs :
        /\ IsSetInterval(p, <<"1", ".", "5">>)
        /\ svc[p].pc = "exited" /\ svc[p].status = 1
        /\ ConfigOf(p).exists

\* the text after the last n tokens of a file begin
TailText(file, n) ==
    IF Len(file.text) < n THEN file.text
    ELSE SubSeq(file.text, Len(file.text) - n + 1, Len(file.text))

\* C7: execute_script handling a failed launch appends to the log exactly
\* the line "[timestamp] ERROR: <message>" and the separator line, and
\* returns to the run loop, which goes on to its wait.
C7_LaunchFailureLogged ==
    [][\A p \in Procs :
          ( /\ svc[p].pc = "except"
            /\ svc[p].exc \in {ErrNoScript, ErrNotExec}
            /\ svc'[p] # svc[p]
            /\ svc'[p].sigAt = "" )
          => /\ svc'[p].pc = "wait"
             /\ LogOf(p)' =
                   File(LogOf(p).text
                          \o <<"[", TS, "] ERROR: ", svc[p].exc, NL>>
                          \o <<DASHES, NL>>)]_vars

\* C7 witness: the loop waits after the launch of a script that is not
\* executable failed, and the ERROR entry ends the log
C7_Witness ==
    \E p \in Procs :
        /\ svc[p].pc = "wait" /\ svc[p].cycles = 1
        /\ TailText(LogOf(p), 7) =
              <<"[", TS, "] ERROR: ", ErrNotExec, NL, DASHES, NL>>

\* decimal text of the exit codes drawn
CodeText(c) ==
    CASE c = 0     -> <<"0">>
      [] c = 1     -> <<"1">>
      [] c = 0 - 9 -> <<"-", "9">>
      [] c = 127   -> <<"1", "2", "7">>

\* the captured outputs drawn, without surrounding whitespace
Trimmed(o) ==
    CASE o = <<NL>>                         -> <<>>
      [] o = <<"hello", NL>>                -> <<"hello">>
      [] o = <<" ", "a", NL, "b", " ", NL>> -> <<"a", NL, "b">>
      [] o = <<"oops", NL>>                 -> <<"oops">>
      [] o = <<"\t", "x">>                  -> <<"x">>
      [] OTHER                              -> o

ExpectedEntry(r) ==
    <<"[", TS, "] Exit code: ">> \o CodeText(r.rc) \o <<NL>>
      \o (IF Len(r.out) > 0
          THEN <<"STDOUT: ">> \o Trimmed(r.out) \o <<NL>> ELSE <<>>)
      \o (IF Len(r.err) > 0
          THEN <<"STDERR: ">> \o Trimmed(r.err) \o <<NL>> ELSE <<>>)
      \o <<DASHES, NL>>

\* C9: after subprocess.run returned exit code c, stdout s and stderr e,
\* the next step of execute_script appends to the end of the log the header
\* line with 'Exit code: c', a STDOUT part iff s is not empty, a STDERR part
\* iff e is not empty, and the separator line, and goes on to the trim: no
\* exit code makes it an ERROR entry.
C9_EntryAppended ==
    [][\A p \in Procs :
          ( /\ svc[p].pc = "append"
            /\ svc'[p] # svc[p]
            /\ svc'[p].sigAt = "" )
          => /\ svc'[p].pc = "trim"
             /\ LogOf(p)' =
                   File(LogOf(p).text \o ExpectedEntry(svc[p].result))]_vars

\* C9 witness: the entry of a command that exited with 127 and wrote to both
\* streams ends the log
C9_Witness ==
    \E p \in Procs :
        /\ svc[p].pc = "trim"
        /\ svc[p].result =
              [rc |-> 127, out |-> <<" ", "a", NL, "b", " ", NL>>,
               err |-> <<"\t", "x">>]
        /\ TailText(LogOf(p), 17) =
              <<"[", TS, "] Exit code: ", "1", "2", "7", NL,
                "STDOUT: ", "a", NL, "b", NL, "STDERR: ", "x", NL,
                DASHES, NL>>

\* C8: trim_log leaves a log of at most max_log_lines lines, and a log that
\* does not exist, as it is, and turns a longer log into its last
\* max_log_lines lines, in their order.
C8_TrimKeepsTail ==
    [][(svc[1].pc = "trim" /\ svc'[1].pc = "wait")
          => IF ~fs[1].log.exists THEN fs'[1].log = fs[1].log
             ELSE \A ls \in TrimLines :
                    JoinLines(ls) = fs[1].log.text
                      => IF Len(ls) > max_log_lines
                         THEN fs'[1].log =
                                File(JoinLines(
                                  [i \in 1..max_log_lines |->
                                     ls[Len(ls) - max_log_lines + i]]))
                         ELSE fs'[1].log = fs[1].log]_vars

\* C8 witness: a log of more than max_log_lines lines (kept in directory 2)
\* has been trimmed to max_log_lines lines
C8_Witness ==
    /\ svc[1].pc = "wait"
    /\ LineCount(fs[2].log) > max_log_lines
    /\ LineCount(fs[1].log) = max_log_lines
    /\ fs[1].log # fs[2].log

\* C10: the invocation without arguments and the invocation with `run`,
\* given the same files, outcomes and signals, are in the same state at
\* every step (position, flag, interval, counters, exit status) and have
\* written the same files.
C10_NoArgumentIsRun ==
    svc[1].pc # "idle"
        => /\ [svc[1] EXCEPT !.argv = <<>>, !.dir = 0]
                = [svc[2] EXCEPT !.argv = <<>>, !.dir = 0]
           /\ fs[1] = fs[2]

\* C10 witness: both invocations wait after their second execution, with a
\* log written
C10_Witness ==
    /\ svc[1].pc = "wait" /\ svc[2].pc = "wait"
    /\ svc[1].cycles = 2 /\ svc[2].cycles = 2
    /\ svc[1].argv = <<PROG>> /\ svc[2].argv = <<PROG, <<"run">>>>
    /\ fs[1].log.exists /\ fs[1].log = fs[2].log

\* command lines that are usage errors: an unknown command, set-interval
\* without a value, set-interval with two values
UsageArgvs ==
    {<<PROG, <<"status">>>>, <<PROG, <<"set-interval">>>>,
     <<PROG, <<"set-interval">>, <<"2">>, <<"3">>>>}

\* arguments of set-interval that are integers
IntegerArgs == {<<"7">>, <<"1", "2">>, <<"-", "1">>}

\* C11: no step of an invocation with a usage error sets the run flag,
\* starts an execution or changes the configuration file or the log, and
\* its dispatch in main() ends it with status 1; the dispatch of a
\* set-interval with an integer ends the process with status 0; a process
\* that a signal reaches ends with status 0.
C11_ExitStatus ==
    [][\A p \in Procs :
          svc'[p] # svc[p]
          => /\ svc'[p].argv \in UsageArgvs
                  => /\ fs' = fs
                     /\ ~svc'[p].running
                     /\ svc'[p].pc \in {"main", "exited"}
                     /\ (svc[p].pc = "main" /\ svc'[p].sigAt = "")
                           => (svc'[p].pc = "exited" /\ svc'[p].status = 1)
             /\ ( /\ \E a \in IntegerArgs : IsSetInterval(p, a)
                  /\ svc[p].pc = "main" /\ svc'[p].sigAt = "" )
                  => (svc'[p].pc = "exited" /\ svc'[p].status = 0)
             /\ (svc[p].sigAt = "" /\ svc'[p].sigAt # "")
                  => (svc'[p].pc = "exited" /\ svc'[p].status = 0)]_vars

\* C11 witness: an unknown command has ended with status 1 through
\* sys.exit, the files as they were (directory 2 keeps them)
C11_Witness ==
    \E p \in Procs :
        /\ svc[p].argv = <<PROG, <<"status">>>>
        /\ svc[p].pc = "exited" /\ svc[p].status = 1
        /\ svc[p].term = "sys.exit"
        /\ fs[1] = fs[2]

\* C12: the startup of a process leaves the files as they are and takes the
\* process to main() without an exit status; when the configuration file is
\* missing, empty (no JSON) or an object without 'interval', or when the
\* load printed an error (unreadable, no JSON, no object), the interval is
\* 3600.
C12_LoadFallsBack ==
    [][\A p \in Procs :
          (svc[p].pc = "idle" /\ svc'[p].pc # "idle")
          => /\ fs' = fs
             /\ svc'[p].pc = "main" /\ svc'[p].status = 0 - 1
             /\ ( \/ ConfigOf(p) \in {NoFile, File(<<>>), File(<<"{", "}">>)}
                  \/ svc'[p].cfgError = "loading" )
                  => svc'[p].interval = PyIntV(3600)]_vars

\* C12 witness: a process has started next to a configuration file that
\* holds interval 1 and that it could not read, and has the default
C12_Witness ==
    \E p \in Procs :
        /\ svc[p].pc = "main"
        /\ svc[p].cfgError = "loading"
        /\ ConfigOf(p) = ConfigWith(<<"1">>)
        /\ svc[p].interval = PyIntV(3600)

\* C13: a process that runs the loop keeps the interval it loaded at
\* startup through every step of the system, the set-interval of another
\* process included, and none of its own steps changes the configuration
\* file.
C13_LoopIntervalFixed ==
    [][\A p \in Procs :
          (svc[p].pc # "idle" /\ RunsLoop(svc[p].argv))
          => /\ svc'[p].interval = svc[p].interval
             /\ svc'[p] # svc[p] => ConfigOf(p)' = ConfigOf(p)]_vars

\* C13 witness: the loop of process 1 has executed and waits with the
\* default interval while the set-interval 12 of process 2 has returned and
\* the configuration file holds 12
C13_Witness ==
    /\ RunsLoop(svc[1].argv)
    /\ svc[1].pc = "wait" /\ svc[1].cycles >= 1
    /\ svc[1].interval = PyIntV(DEFAULT_INTERVAL)
    /\ IsSetInterval(2, <<"1", "2">>)
    /\ svc[2].pc = "exited" /\ svc[2].term = "return"
    /\ ConfigOf(1) = ConfigWith(<<"1", "2">>)

\* C14: the run flag of a process goes from true to false only in the step
\* that delivers a signal to it, and a process that a signal has reached
\* takes no further step: its flag stays false, it starts no execution and
\* no append.
C14_StoppedIsTerminal ==
    [][\A p \in Procs :
          /\ (svc[p].running /\ ~svc'[p].running)
                => (svc[p].sigAt = "" /\ svc'[p].sigAt # "")
          /\ svc[p].sigAt # ""
                => (~svc[p].running /\ svc'[p] = svc[p])]_vars

\* C14 witness: a signal has reached a process whose flag was set and that
\* was about to launch the command; the flag is false and the process ended
C14_Witness ==
    \E p \in Procs :
        /\ svc[p].sigAt = "exec"
        /\ ~svc[p].running
        /\ svc[p].pc = "exited"

\* C15: the step that delivers a signal to a process, wherever the process
\* is, ends it with status 0 through the handler and leaves the files as
\* they are (no ERROR entry is written for it).
C15_SignalExitsZero ==
    [][\A p \in Procs :
          (svc[p].sigAt = "" /\ svc'[p].sigAt # "")
          => /\ svc'[p].sigAt = svc[p].pc
             /\ svc'[p].pc = "exited"
             /\ svc'[p].status = 0
             /\ svc'[p].term = "signal"
             /\ fs' = fs]_vars

\* C15 witness: a signal has reached the loop of process 1 between the
\* command and the append, and another has reached the set-interval of
\* process 2 before its dispatch; both ended with status 0
C15_Witness ==
    /\ svc[1].sigAt = "append" /\ svc[1].pc = "exited" /\ svc[1].status = 0
    /\ IsSetInterval(2, <<"7">>)
    /\ svc[2].sigAt = "main" /\ svc[2].pc = "exited" /\ svc[2].status = 0

\* C16: an execution starts only from the test of the outer loop, and the
\* wait that follows an execution ends, without a signal, only when the
\* number of one-second polls equals the interval.
C16_ExactlyIntervalPolls ==
    [][\A p \in Procs :
          /\ (svc[p].pc # "exec" /\ svc'[p].pc = "exec")
                => (svc[p].pc = "loop" /\ svc[p].result = NoResult)
          /\ (svc[p].pc = "wait" /\ svc'[p].pc = "loop")
                => svc[p].interval = PyIntV(svc[p].elapsed)]_vars

\* the lines of the log file
LogLines == readlines(fs[1].log.text)

\* xs followed by at least one more line is ys
IsProperPrefix(xs, ys) ==
    Len(xs) < Len(ys) /\ SubSeq(ys, 1, Len(xs)) = xs

\* xs is what is left of ys after lines are dropped from its front
IsSuffix(xs, ys) ==
    Len(xs) <= Len(ys) /\ SubSeq(ys, Len(ys) - Len(xs) + 1, Len(ys)) = xs

\* C17: every step that changes the text of the log either appends lines at
\* its end (only the append of an entry or of an ERROR entry does) or leaves
\* a suffix of the lines that keeps the last line: the log is at all times a contiguous
\* suffix of the initial lines followed by the appended lines, and the
\* newest line is the last.
C17_LogIsSuffixOfHistory ==
    [][\/ fs'[1].log.text = fs[1].log.text
       \/ LET old == LogLines
              new == LogLines'
          IN  \/ /\ IsProperPrefix(old, new)
                 /\ \E p \in Procs :
                       \/ svc[p].pc = "append" /\ svc'[p].pc = "trim"
                       \/ svc[p].pc = "except" /\ svc'[p].pc = "wait"
              \/ /\ IsSuffix(new, old)
                 /\ old # <<>>
                 /\ new # <<>>
                 /\ new[Len(new)] = old[Len(old)]]_vars

\* C17 witness: after two executions the log, which had lines at the start,
\* is full and ends with the entry of the last execution
C17_Witness ==
    \E p \in Procs :
        /\ svc[p].pc = "wait" /\ svc[p].cycles = 2
        /\ fs[2].log.exists /\ fs[2].log.text # <<>>
        /\ Len(LogLines) = max_log_lines
        /\ LogLines[Len(LogLines)] = <<DASHES, NL>>
        /\ LogLines # LastLines(readlines(fs[2].log.text), max_log_lines)

\* the integer a set-interval argument of this model denotes
IntegerOf(a) ==
    CASE a = <<"7">> -> 7
      [] a = <<"1", "2">> -> 12
      [] a = <<"-", "1">> -> 0 - 1

\* C18: a process that printed the error of a failed configuration write
\* has ended by the return of main() with status 0, as a successful
\* set-interval does, and its interval is the value it was given.
C18_SaveFailureNotFatal ==
    \A p \in Procs :
        svc[p].cfgError = "saving"
        => /\ svc[p].pc = "exited"
           /\ svc[p].term = "return"
           /\ svc[p].status = 0
           /\ svc[p].exc = ""
           /\ \E a \in IntegerArgs :
                 /\ IsSetInterval(p, a)
                 /\ svc[p].interval = PyIntV(IntegerOf(a))

\* C18 witness: set-interval 12 has ended after a failed write; there is
\* still no configuration file
C18_Witness ==
    \E p \in Procs :
        /\ IsSetInterval(p, <<"1", "2">>)
        /\ svc[p].cfgError = "saving"
        /\ svc[p].pc = "exited" /\ svc[p].status = 0
        /\ ConfigOf(p) = NoFile

====
